---- MODULE Spec2Model ----
(***************************************************************************)
(* Set<T>: a 2-3 tree with leaf-stored keys, parent links, an END_NODE_    *)
(* sentinel per Set and version-stamped iterators (src/tree.h).            *)
(*                                                                         *)
(* The heap is a function from node addresses to Node structs.  A leaf     *)
(* owns a T object; the T object is identified with the address of the     *)
(* leaf that allocated it, so Node::val is a pointer (an address) and an   *)
(* internal node's val aliases the T of a leaf, as in the source.          *)
(* Address 0 is nullptr; address s (s in Sets) is &Set_s.END_NODE_.        *)
(***************************************************************************)
EXTENDS Integers, Sequences, FiniteSets, TLC

VARIABLES heap, root_, size_, version_, built, iters, last, peak, elems

vars == <<heap, root_, size_, version_, built, iters, last, peak, elems>>

(* ------------------------------ bounds -------------------------------- *)
MaxTreeKey == 8
MaxTreeVersion == 10
MaxKey == 3
MaxVersion == 4
MaxIterKey == 2
MaxIterVersion == 2
MaxCmpKey == 2
MaxCmpVersion == 2

(* --------------------------- program constants ------------------------ *)
MAX_SONS == 4

Sets == {1, 2}
Iters == {1, 2}
Keys == 1 .. MaxKey
TreeKeys == 1 .. MaxTreeKey
IterKeys == 1 .. MaxIterKey
CmpKeys == 1 .. MaxCmpKey
nullptr == 0

END_NODE_(s) == s

(* Node() and Node(const T& val) *)
Node == [key |-> 0, val |-> nullptr, parent |-> nullptr, sons |-> <<>>]

(* operator new: the lowest address that is neither live nor freed earlier *)
(* in the running operation.                                               *)
NewAddr(st) ==
    LET used == DOMAIN st.h \cup st.freed
    IN  CHOOSE a \in 1 .. (Cardinality(used) + 1) :
            a \notin used /\ \A b \in 1 .. (a - 1) : b \in used

New(st, node) == [st EXCEPT !.h = NewAddr(st) :> node @@ st.h]

(* operator delete *)
Delete(st, n) ==
    [st EXCEPT !.h = [a \in DOMAIN st.h \ {n} |-> st.h[a]],
               !.freed = @ \cup {n}]

(* *node->val : the key a node's val pointer refers to *)
Val(h, n) == h[h[n].val].key

sons_size(h, n) == Len(h[n].sons)

Max(a, b) == IF a < b THEN b ELSE a

(* node->sons[node->sons_size++] = son *)
AppendSon(st, n, son) ==
    [st EXCEPT !.h[n].sons = Append(@, son),
               !.peak = Max(@, Len(st.h[n].sons) + 1)]

Swap(s, i, j) == [s EXCEPT ![i] = s[j], ![j] = s[i]]

(* the loop of sort_sons: one pass from the right, i is the 0-based index *)
RECURSIVE SortPass(_, _, _)
SortPass(h, s, i) ==
    IF i < 0 THEN s
    ELSE SortPass(h,
                  IF Val(h, s[i + 2]) < Val(h, s[i + 1])
                      THEN Swap(s, i + 1, i + 2) ELSE s,
                  i - 1)

(* mutant: the pass never swaps *)
sort_sons_NoSwap(st, n) == st

(* mutant: the pass stops after its first comparison, that of the last two sons *)
sort_sons_LastPair(st, n) ==
    IF sons_size(st.h, n) < 2 THEN st
    ELSE LET ss == st.h[n].sons
             i == Len(ss) - 1
         IN  IF Val(st.h, ss[i + 1]) < Val(st.h, ss[i])
             THEN [st EXCEPT !.h[n].sons = Swap(ss, i, i + 1)]
             ELSE st

(* size_t i = sons_size - 2 wraps above MAX_SONS when sons_size < 2 *)
sort_sons(st, n) ==
    IF sons_size(st.h, n) < 2 THEN st
    ELSE [st EXCEPT !.h[n].sons = SortPass(st.h, @, sons_size(st.h, n) - 2)]

(* mutant: val is taken from sons[0], not from sons[sons_size - 1] *)
update_FirstSon(st, n) ==
    IF n = nullptr THEN st
    ELSE LET s1 == sort_sons(st, n)
             ss == s1.h[n].sons
             kids == {ss[i] : i \in 1 .. Len(ss)}
         IN  [s1 EXCEPT !.h = [a \in DOMAIN s1.h |->
                 IF a \in kids THEN [s1.h[a] EXCEPT !.parent = n]
                 ELSE IF a = n THEN [s1.h[a] EXCEPT !.val = s1.h[ss[1]].val]
                 ELSE s1.h[a]]]

(* mutant: the loop that sets sons[i]->parent is left out *)
update_NoParents(st, n) ==
    IF n = nullptr THEN st
    ELSE LET s1 == sort_sons(st, n)
             ss == s1.h[n].sons
         IN  [s1 EXCEPT !.h[n].val = s1.h[ss[Len(ss)]].val]

update_(st, n) ==
    IF n = nullptr THEN st
    ELSE LET s1 == sort_sons(st, n)
             ss == s1.h[n].sons
             kids == {ss[i] : i \in 1 .. Len(ss)}
         IN  [s1 EXCEPT !.h = [a \in DOMAIN s1.h |->
                 IF a \in kids THEN [s1.h[a] EXCEPT !.parent = n]
                 ELSE IF a = n THEN [s1.h[a] EXCEPT !.val = s1.h[ss[Len(ss)]].val]
                 ELSE s1.h[a]]]

(* mutant: a node with 4 sons is not split *)
fix4sons_NoSplit(st, n) == st

RECURSIVE fix4sons_(_, _)
(* mutant: a split root is put under a new node, and that node under the new root *)
fix4sons_DoubleRoot(st, n) ==
    IF sons_size(st.h, n) # 4 THEN st
    ELSE LET node2 == NewAddr(st)
             ss == st.h[n].sons
             s1 == New(st, [Node EXCEPT !.sons = <<ss[3], ss[4]>>])
             s2 == [s1 EXCEPT !.h[n].sons = <<ss[1], ss[2]>>]
             s3 == update_(update_(s2, node2), n)
         IN  IF n = s3.root
             THEN LET mid == NewAddr(s3)
                      s4 == New(s3, Node)
                      s5 == update_(AppendSon(AppendSon(s4, mid, n), mid, node2), mid)
                      r == NewAddr(s5)
                      s6 == New(s5, [Node EXCEPT !.sons = <<mid>>])
                  IN  update_([s6 EXCEPT !.root = r], r)
             ELSE LET p == s3.h[n].parent
                      s4 == update_(AppendSon(s3, p, node2), p)
                  IN  fix4sons_(s4, s4.h[n].parent)

fix4sons_(st, n) ==
    IF sons_size(st.h, n) # 4 THEN st
    ELSE LET node2 == NewAddr(st)
             ss == st.h[n].sons
             s1 == New(st, [Node EXCEPT !.sons = <<ss[3], ss[4]>>])
             s2 == [s1 EXCEPT !.h[n].sons = <<ss[1], ss[2]>>]
             s3 == update_(update_(s2, node2), n)
         IN  IF n = s3.root
             THEN LET r == NewAddr(s3)
                      s4 == New(s3, Node)
                      s5 == AppendSon(AppendSon([s4 EXCEPT !.root = r], r, n), r, node2)
                  IN  update_(s5, r)
             ELSE LET p == s3.h[n].parent
                      s4 == update_(AppendSon(s3, p, node2), p)
                  IN  fix4sons_(s4, s4.h[n].parent)

(* std::find(sons.begin(), sons.begin() + sons_size, node) - sons.begin(), 1-based *)
PosOf(s, n) == CHOOSE i \in 1 .. (Len(s) + 1) :
                  /\ (i <= Len(s) => s[i] = n)
                  /\ \A j \in 1 .. (i - 1) : s[j] # n

(* while (pos != sons_size - 1) swap(sons[pos], sons[pos + 1]); sons_size-- *)
RemoveAt(s, pos) == [i \in 1 .. (Len(s) - 1) |-> IF i < pos THEN s[i] ELSE s[i + 1]]

RECURSIVE fix1sons_(_, _)
(* mutant: the parent takes the only son of node in the place of node *)
fix1sons_Lift(st, n) ==
    IF n = nullptr THEN st
    ELSE IF sons_size(st.h, n) # 1
    THEN LET s1 == update_(st, n) IN fix1sons_(s1, s1.h[n].parent)
    ELSE IF n = st.root
    THEN LET r == st.h[n].sons[1]
         IN  Delete([st EXCEPT !.root = r, !.h[r].parent = nullptr], n)
    ELSE LET p == st.h[n].parent
             son == st.h[n].sons[1]
             s1 == [st EXCEPT !.h[p].sons = [i \in 1 .. Len(@) |->
                                                IF @[i] = n THEN son ELSE @[i]]]
             s2 == update_(Delete(s1, n), p)
         IN  fix1sons_(s2, s2.h[p].parent)

(* mutant: a node left with one son is kept as it is *)
fix1sons_NoMerge(st, n) ==
    IF n = nullptr THEN st
    ELSE LET s1 == update_(st, n) IN fix1sons_(s1, s1.h[n].parent)

fix1sons_(st, n) ==
    IF n = nullptr THEN st
    ELSE IF sons_size(st.h, n) # 1
    THEN LET s1 == update_(st, n) IN fix1sons_(s1, s1.h[n].parent)
    ELSE IF n = st.root
    THEN LET r == st.h[n].sons[1]
         IN  Delete([st EXCEPT !.root = r, !.h[r].parent = nullptr], n)
    ELSE LET p == st.h[n].parent
             bro == IF n = st.h[p].sons[2] THEN st.h[p].sons[1] ELSE st.h[p].sons[2]
             s1 == AppendSon(st, bro, st.h[n].sons[1])
             s2 == [s1 EXCEPT !.h[p].sons = RemoveAt(@, PosOf(@, n))]
             s3 == Delete(s2, n)
             s4 == update_(s3, bro)
             s5 == fix4sons_(s4, bro)
             s6 == update_(s5, s5.h[bro].parent)
         IN  fix1sons_(s6, s6.h[bro].parent)

RECURSIVE lower_bound_(_, _, _)
lower_bound_(h, n, elem) ==
    IF sons_size(h, n) = 0 THEN n
    ELSE IF ~(Val(h, h[n].sons[1]) < elem) THEN lower_bound_(h, h[n].sons[1], elem)
    ELSE IF ~(Val(h, h[n].sons[2]) < elem) \/ sons_size(h, n) = 2
         THEN lower_bound_(h, h[n].sons[2], elem)
    ELSE lower_bound_(h, h[n].sons[3], elem)

(* the descent of lower_bound; e is the Set's &END_NODE_ *)
RECURSIVE LowerDescend(_, _, _, _)
LowerDescend(h, n, elem, e) ==
    IF sons_size(h, n) = 0
    THEN IF Val(h, n) < elem THEN e ELSE n
    ELSE IF ~(Val(h, h[n].sons[1]) < elem) THEN LowerDescend(h, h[n].sons[1], elem, e)
    ELSE IF ~(Val(h, h[n].sons[2]) < elem) THEN LowerDescend(h, h[n].sons[2], elem, e)
    ELSE IF sons_size(h, n) = 2 \/ Val(h, h[n].sons[3]) < elem THEN e
    ELSE LowerDescend(h, h[n].sons[3], elem, e)


(* mutant: the descent of lower_bound_, which never answers end() *)
lower_bound_NoEnd(st, elem, e) ==
    IF st.size = 0 THEN e ELSE lower_bound_(st.h, st.root, elem)

lower_bound(st, elem, e) ==
    IF st.size = 0 THEN e ELSE LowerDescend(st.h, st.root, elem, e)

(* mutant: find never finds the key *)
find_NotFound(st, elem, e) == e

(* mutant: the key found is not compared with elem *)
find_NoCompare(st, elem, e) == lower_bound(st, elem, e)

find(st, elem, e) ==
    LET iter == lower_bound(st, elem, e)
    IN  IF iter = e THEN e
        ELSE IF Val(st.h, iter) < elem \/ elem < Val(st.h, iter) THEN e
        ELSE iter

RECURSIVE LeftMost(_, _)
LeftMost(h, n) == IF sons_size(h, n) = 0 THEN n ELSE LeftMost(h, h[n].sons[1])

RECURSIVE RightMost(_, _)
RightMost(h, n) == IF sons_size(h, n) = 0 THEN n ELSE RightMost(h, h[n].sons[sons_size(h, n)])

begin(st, e) == IF st.size = 0 THEN e ELSE LeftMost(st.h, st.root)

(* mutant: the final loop of insert is left out *)
InsertWalk_None(st, pos) == st

(* the final loop of insert: refresh every ancestor above pos->parent *)
RECURSIVE InsertWalk(_, _)
InsertWalk(st, pos) ==
    IF st.h[pos].parent = nullptr THEN st
    ELSE LET p == st.h[pos].parent IN InsertWalk(update_(st, st.h[p].parent), p)

(* insert from ++version_ on: elem is not in the Set *)
InsertAbsent(st, elem) ==
    LET s0 == [st EXCEPT !.version = @ + 1, !.size = @ + 1]
        node == NewAddr(s0)
        s1 == New(s0, [Node EXCEPT !.key = elem, !.val = node])
    IN  IF s1.root = nullptr THEN [s1 EXCEPT !.root = node]
        ELSE LET pos == lower_bound_(s1.h, s1.root, elem)
             IN  IF s1.h[pos].parent = nullptr
                 THEN LET r == NewAddr(s1)
                          s2 == New(s1, Node)
                          s3 == AppendSon(AppendSon([s2 EXCEPT !.root = r], r, pos),
                                          r, node)
                      IN  update_(s3, r)
                 ELSE LET p == s1.h[pos].parent
                          s2 == update_(AppendSon(s1, p, node), p)
                          s3 == fix4sons_(s2, s2.h[pos].parent)
                      IN  InsertWalk(s3, pos)

(* mutant: no find(elem) != end() before the insertion *)
insert_NoFind(st, elem, e) == InsertAbsent(st, elem)

insert(st, elem, e) ==
    IF find(st, elem, e) # e THEN st ELSE InsertAbsent(st, elem)

(* mutant: --size_ is left out *)
EraseNode_KeepSize(st, node) ==
    LET s0 == [st EXCEPT !.version = @ + 1]
    IN  IF s0.h[node].parent = nullptr
        THEN [Delete(s0, node) EXCEPT !.root = nullptr]
        ELSE LET parent == s0.h[node].parent
                 s1 == [s0 EXCEPT !.h[parent].sons = RemoveAt(@, PosOf(@, node))]
                 s2 == Delete(s1, node)
             IN  fix1sons_(update_(s2, parent), parent)

(* erase from ++version_ on: node is the leaf that holds elem *)
EraseNode(st, node) ==
    LET s0 == [st EXCEPT !.version = @ + 1, !.size = @ - 1]
    IN  IF s0.h[node].parent = nullptr
        THEN [Delete(s0, node) EXCEPT !.root = nullptr]
        ELSE LET parent == s0.h[node].parent
                 s1 == [s0 EXCEPT !.h[parent].sons = RemoveAt(@, PosOf(@, node))]
                 s2 == Delete(s1, node)
             IN  fix1sons_(update_(s2, parent), parent)

(* mutant: the leaf lower_bound_ gives is erased without comparing its key *)
erase_NoCompare(st, elem) ==
    IF st.size = 0 THEN st ELSE EraseNode(st, lower_bound_(st.h, st.root, elem))

erase(st, elem) ==
    IF st.size = 0 THEN st
    ELSE LET node == lower_bound_(st.h, st.root, elem)
         IN  IF Val(st.h, node) < elem \/ elem < Val(st.h, node) THEN st
             ELSE EraseNode(st, node)

(* the two upward walks: <<son, par>> where the loop stops *)
RECURSIVE UpWhileLast(_, _, _)
UpWhileLast(h, son, par) ==
    IF par # nullptr /\ son = h[par].sons[sons_size(h, par)]
    THEN UpWhileLast(h, h[son].parent, h[par].parent)
    ELSE <<son, par>>

RECURSIVE UpWhileFirst(_, _, _)
UpWhileFirst(h, son, par) ==
    IF par # nullptr /\ son = h[par].sons[1]
    THEN UpWhileFirst(h, h[son].parent, h[par].parent)
    ELSE <<son, par>>

(* what next_node_ returns when it throws std::exception *)
Thrown == -1

next_node_(h, cur, e) ==
    LET up == UpWhileLast(h, cur, h[cur].parent)
    IN  IF up[2] = nullptr THEN e
        ELSE LET son == LeftMost(h, h[up[2]].sons[PosOf(h[up[2]].sons, up[1]) + 1])
             IN  IF h[son].val = nullptr THEN Thrown ELSE son

(* mutant: with no parent left, cur_ is returned in the place of &END_NODE_ *)
prev_node_Stay(h, root, cur, e) ==
    IF cur = e THEN RightMost(h, root)
    ELSE LET up == UpWhileFirst(h, cur, h[cur].parent)
         IN  IF up[2] = nullptr THEN cur
             ELSE RightMost(h, h[up[2]].sons[PosOf(h[up[2]].sons, up[1]) - 1])

(* mutant: from the sibling before, the descent takes sons[0] *)
prev_node_LeftDescent(h, root, cur, e) ==
    IF cur = e THEN RightMost(h, root)
    ELSE LET up == UpWhileFirst(h, cur, h[cur].parent)
         IN  IF up[2] = nullptr THEN e
             ELSE LeftMost(h, h[up[2]].sons[PosOf(h[up[2]].sons, up[1]) - 1])

(* defined when cur is not &END_NODE_ or root is not null *)
prev_node_(h, root, cur, e) ==
    IF cur = e THEN RightMost(h, root)
    ELSE LET up == UpWhileFirst(h, cur, h[cur].parent)
         IN  IF up[2] = nullptr THEN e
             ELSE RightMost(h, h[up[2]].sons[PosOf(h[up[2]].sons, up[1]) - 1])

Range(q) == {q[i] : i \in 1 .. Len(q)}

(* a node and the nodes below it, each before its sons *)
RECURSIVE Preorder(_, _)
RECURSIVE PreorderSons(_, _, _)
Preorder(h, n) == IF n = nullptr THEN <<>> ELSE <<n>> \o PreorderSons(h, n, 1)

PreorderSons(h, n, i) ==
    IF i > Len(h[n].sons) THEN <<>>
    ELSE Preorder(h, h[n].sons[i]) \o PreorderSons(h, n, i + 1)

(* destruct_ on every son, then delete root: every node below root and *)
(* root itself are deleted                                             *)
destruct_(st, r) ==
    LET dead == Range(Preorder(st.h, r))
    IN  [st EXCEPT !.h = [a \in DOMAIN st.h \ dead |-> st.h[a]],
                   !.freed = @ \cup dead]

(* mutant: the loop body runs for the first item only *)
CopyLoop_FirstItem(st, cur, srcEnd, e) ==
    IF cur = srcEnd THEN st ELSE insert(st, Val(st.h, cur), e)

(* for (const auto& item : s) insert(item); cur walks s, st is *this *)
RECURSIVE CopyLoop(_, _, _, _)
CopyLoop(st, cur, srcEnd, e) ==
    IF cur = srcEnd THEN st
    ELSE CHOOSE done \in {CopyLoop(s1, next_node_(s1.h, cur, srcEnd), srcEnd, e) :
                             s1 \in {insert(st, Val(st.h, cur), e)}} : TRUE


(* ------------------------------ state ---------------------------------- *)

(* Iterator() = default, and Iterator(node, s) *)
DefaultIterator == [cur |-> nullptr, s |-> nullptr, version |-> 0]
Iterator(node, s) == [cur |-> node, s |-> s, version |-> version_[s]]

(* the record of the last call: the function, how it ended and what it   *)
(* returned (for insert and erase: whether size() changed)               *)
Call(op, out, val) == [op |-> op, out |-> out, val |-> val]

NoCall == Call("none", "ok", FALSE)

(* the Set object s together with the heap, as the member functions see it *)
St(s) == [h |-> heap, root |-> root_[s], size |-> size_[s], version |-> version_[s],
          freed |-> {}, peak |-> 0]

(* Addresses are only ever compared for equality, so a state is kept up to *)
(* a renaming of the addresses operator new handed out: live nodes are     *)
(* numbered in preorder, Set by Set, and a freed address an iterator still *)
(* holds becomes a negative address, which operator new never returns.     *)
RECURSIVE Ascending(_)
Ascending(A) ==
    IF A = {} THEN <<>>
    ELSE LET m == CHOOSE x \in A : \A y \in A : x <= y
         IN  <<m>> \o Ascending(A \ {m})

(* the new address of every node of `live`, the i-th becoming base + i *)
RECURSIVE Numbered(_, _, _)
Numbered(live, i, base) ==
    IF i > Len(live) THEN [a \in Sets \cup {nullptr} |-> a]
    ELSE (live[i] :> (base + i)) @@ Numbered(live, i + 1, base)

(* the freed addresses the iterators hold, in the order of the iterators *)
RECURSIVE Held(_, _, _)
Held(its, i, known) ==
    IF i > Cardinality(Iters) THEN <<>>
    ELSE IF its[i].cur \in known THEN Held(its, i + 1, known)
    ELSE <<its[i].cur>> \o Held(its, i + 1, known \cup {its[i].cur})

Put(h0, r, its) ==
    \E h \in {h0} :
    \E live \in {LET trees == Preorder(h, r[1]) \o Preorder(h, r[2])
                 IN trees \o Ascending(DOMAIN h \ (Range(trees) \cup Sets))} :
    \E held \in {Held(its, 1, DOMAIN h \cup {nullptr})} :
    \E rho \in {Numbered(held, 1, 0 - 1 - Len(held) - 1)
                   @@ Numbered(live, 1, Cardinality(Sets))} :
    LET moved(n) == [key |-> n.key,
                     val |-> rho[n.val],
                     parent |-> rho[n.parent],
                     sons |-> [i \in 1 .. Len(n.sons) |-> rho[n.sons[i]]]]
    IN  /\ heap' = [b \in 1 .. (Cardinality(Sets) + Len(live)) |->
                      IF b \in Sets THEN h[b] ELSE moved(h[live[b - Cardinality(Sets)]])]
        /\ root_' = [s \in Sets |-> rho[r[s]]]
        /\ iters' = [i \in Iters |-> [its[i] EXCEPT !.cur = rho[@]]]

(* an iterator is assigned: the nodes stay where they are *)
PutIters(its) ==
    IF \A i \in Iters : its[i].cur \in DOMAIN heap \cup {nullptr}
    THEN iters' = its /\ UNCHANGED <<heap, root_>>
    ELSE Put(heap, root_, its)

(* write *this back *)
Commit(s, st, op) ==
    /\ Put(st.h, [root_ EXCEPT ![s] = st.root], iters)
    /\ size_' = [size_ EXCEPT ![s] = st.size]
    /\ version_' = [version_ EXCEPT ![s] = st.version]
    /\ peak' = st.peak
    /\ last' = Call(op, "ok", st.size # size_[s])

Init ==
    /\ heap = [s \in Sets |-> Node]
    /\ root_ = [s \in Sets |-> nullptr]
    /\ size_ = [s \in Sets |-> 0]
    /\ version_ = [s \in Sets |-> 0]
    /\ built = [s \in Sets |-> s = 1]
    /\ iters = [i \in Iters |-> DefaultIterator]
    /\ last = NoCall
    /\ peak = 0
    /\ elems = [s \in Sets |-> {}]

(* ------------------------- operations on a Set ------------------------- *)

(* Set() = default *)
Construct(d) ==
    /\ ~built[d]
    /\ built' = [built EXCEPT ![d] = TRUE]
    /\ last' = Call("Set()", "ok", FALSE)
    /\ UNCHANGED <<heap, root_, size_, version_, iters, peak, elems>>

Insert(s, k, cap) ==
    /\ built[s]
    /\ LET st == insert(St(s), k, END_NODE_(s))
       IN  st.version <= cap /\ Commit(s, st, "insert")
    /\ elems' = [elems EXCEPT ![s] = @ \cup {k}]
    /\ UNCHANGED built

Erase(s, k, cap) ==
    /\ built[s]
    /\ LET st == erase(St(s), k)
       IN  st.version <= cap /\ Commit(s, st, "erase")
    /\ elems' = [elems EXCEPT ![s] = @ \ {k}]
    /\ UNCHANGED built

(* Set(const Set& s): *this when the constructor returns *)
CopyConstructed(d, s) ==
    CopyLoop([St(d) EXCEPT !.root = nullptr, !.size = 0],
             begin(St(s), END_NODE_(s)), END_NODE_(s), END_NODE_(d))

CopyConstruct(d, s) ==
    /\ ~built[d] /\ built[s]
    /\ Commit(d, CopyConstructed(d, s), "Set(const Set&)")
    /\ built' = [built EXCEPT ![d] = TRUE]
    /\ elems' = [elems EXCEPT ![d] = elems[s]]

(* mutant: the version_++ that ends operator= is left out *)
CopyAssigned_NoBump(d, s) ==
    IF d = s THEN St(d)
    ELSE CHOOSE done \in
             {CopyLoop([s0 EXCEPT !.root = nullptr, !.size = 0],
                       begin(St(s), END_NODE_(s)), END_NODE_(s), END_NODE_(d)) :
                  s0 \in {destruct_(St(d), root_[d])}} : TRUE

(* operator=(const Set& s): *this when the operator returns *)
CopyAssigned(d, s) ==
    IF d = s THEN St(d)
    ELSE CHOOSE done \in
             {[s2 EXCEPT !.version = @ + 1] :
                 s2 \in {CopyLoop([s0 EXCEPT !.root = nullptr, !.size = 0],
                                  begin(St(s), END_NODE_(s)), END_NODE_(s), END_NODE_(d)) :
                             s0 \in {destruct_(St(d), root_[d])}}} : TRUE

CopyAssign(d, s, cap) ==
    /\ built[d] /\ built[s]
    /\ IF d = s
       THEN /\ UNCHANGED <<heap, root_, size_, version_, iters, peak>>
            /\ last' = Call("operator=(const Set&)", "ok", FALSE)
       ELSE LET st == CopyAssigned(d, s)
            IN  st.version <= cap /\ Commit(d, st, "operator=(const Set&)")
    /\ elems' = [elems EXCEPT ![d] = elems[s]]
    /\ UNCHANGED built

(* the four std::swap calls of the move operations; END_NODE_ holds the *)
(* same default fields in every Set, so swapping it changes nothing     *)
(* mutant: std::swap(s.size_, size_) is left out *)
Swapped_KeepSize(d, s) ==
    [root |-> [root_ EXCEPT ![d] = root_[s], ![s] = root_[d]],
     size |-> size_,
     version |-> [version_ EXCEPT ![d] = version_[s], ![s] = version_[d]]]

(* mutant: std::swap(s.version_, version_) is left out *)
Swapped_KeepVersion(d, s) ==
    [root |-> [root_ EXCEPT ![d] = root_[s], ![s] = root_[d]],
     size |-> [size_ EXCEPT ![d] = size_[s], ![s] = size_[d]],
     version |-> version_]

(* root_, size_ and version_ of every Set after the swaps *)
Swapped(d, s) ==
    [root |-> [root_ EXCEPT ![d] = root_[s], ![s] = root_[d]],
     size |-> [size_ EXCEPT ![d] = size_[s], ![s] = size_[d]],
     version |-> [version_ EXCEPT ![d] = version_[s], ![s] = version_[d]]]

SwapMembers(d, s) ==
    /\ \E m \in {Swapped(d, s)} :
          /\ Put(heap, m.root, iters)
          /\ size_' = m.size
          /\ version_' = m.version
    /\ elems' = [elems EXCEPT ![d] = elems[s], ![s] = elems[d]]

(* Set(Set&& s) *)
MoveConstruct(d, s) ==
    /\ ~built[d] /\ built[s]
    /\ SwapMembers(d, s)
    /\ built' = [built EXCEPT ![d] = TRUE]
    /\ last' = Call("Set(Set&&)", "ok", size_[s] # size_[d])
    /\ UNCHANGED peak

(* operator=(Set&& s) *)
MoveAssign(d, s) ==
    /\ built[d] /\ built[s]
    /\ IF d = s THEN UNCHANGED <<heap, root_, size_, version_, iters, elems>>
       ELSE SwapMembers(d, s)
    /\ last' = Call("operator=(Set&&)", "ok", size_[s] # size_[d])
    /\ UNCHANGED <<built, peak>>

(* ------------------------------ iterators ------------------------------ *)

(* TRUE when check_version_ returns, FALSE when it throws "invalid iterator" *)
check_version_(it) == it.version = version_[it.s]

IterFrame == UNCHANGED <<size_, version_, built, peak, elems>>

SetIter(i, s, node, op) ==
    /\ built[s]
    /\ PutIters([iters EXCEPT ![i] = Iterator(node, s)])
    /\ last' = Call(op, "ok", FALSE)
    /\ IterFrame

Begin(i, s) == SetIter(i, s, begin(St(s), END_NODE_(s)), "begin")

End(i, s) == SetIter(i, s, END_NODE_(s), "end")

LowerBound(i, s, k) == SetIter(i, s, lower_bound(St(s), k, END_NODE_(s)), "lower_bound")

Find(i, s, k) == SetIter(i, s, find(St(s), k, END_NODE_(s)), "find")

(* an operation with undefined behaviour: a null s_, a cur_ that is null *)
(* or freed, root_ == nullptr in prev_node_, a null val dereferenced.    *)
(* The iterator is left holding any address.                             *)
Undefined(op, i) ==
    /\ \E a \in DOMAIN heap \cup {nullptr} : PutIters([iters EXCEPT ![i].cur = a])
    /\ last' = Call(op, "undefined", 0)

Invalid(op) ==
    /\ UNCHANGED <<heap, root_, iters>>
    /\ last' = Call(op, "invalid iterator", 0)

Returns(op, val) ==
    /\ UNCHANGED <<heap, root_, iters>>
    /\ last' = Call(op, "ok", val)

(* operator++ and operator++(int); val is cur_ of the iterator returned *)
Step(op, i, post) ==
    LET it == iters[i]
    IN  IF it.s = nullptr THEN Undefined(op, i)
        ELSE IF ~check_version_(it) THEN Invalid(op)
        ELSE IF it.cur \notin DOMAIN heap THEN Undefined(op, i)
        ELSE LET n == next_node_(heap, it.cur, END_NODE_(it.s))
             IN  IF n = Thrown
                 THEN UNCHANGED <<heap, root_, iters>> /\ last' = Call(op, "exception", 0)
                 ELSE /\ PutIters([iters EXCEPT ![i].cur = n])
                      /\ last' = Call(op, "ok", IF post THEN it.cur ELSE n)

(* operator-- and operator--(int) *)
StepBack(op, i, post) ==
    LET it == iters[i]
    IN  IF it.s = nullptr THEN Undefined(op, i)
        ELSE IF ~check_version_(it) THEN Invalid(op)
        ELSE IF it.cur \notin DOMAIN heap THEN Undefined(op, i)
        ELSE IF it.cur = END_NODE_(it.s) /\ root_[it.s] = nullptr THEN Undefined(op, i)
        ELSE LET n == prev_node_(heap, root_[it.s], it.cur, END_NODE_(it.s))
             IN  /\ PutIters([iters EXCEPT ![i].cur = n])
                 /\ last' = Call(op, "ok", IF post THEN it.cur ELSE n)

PreInc(i) == Step("++it", i, FALSE) /\ IterFrame

PostInc(i) == Step("it++", i, TRUE) /\ IterFrame

PreDec(i) == StepBack("--it", i, FALSE) /\ IterFrame

PostDec(i) == StepBack("it--", i, TRUE) /\ IterFrame

(* operator* *)
Deref(i) ==
    /\ LET it == iters[i]
       IN  IF it.s = nullptr THEN Undefined("*it", i)
           ELSE IF ~check_version_(it) THEN Invalid("*it")
           ELSE IF it.cur \notin DOMAIN heap THEN Undefined("*it", i)
           ELSE IF heap[it.cur].val \notin DOMAIN heap \ Sets THEN Undefined("*it", i)
           ELSE Returns("*it", Val(heap, it.cur))
    /\ IterFrame

(* operator-> : the val pointer itself *)
Arrow(i) ==
    /\ LET it == iters[i]
       IN  IF it.s = nullptr THEN Undefined("it->", i)
           ELSE IF ~check_version_(it) THEN Invalid("it->")
           ELSE IF it.cur \notin DOMAIN heap THEN Undefined("it->", i)
           ELSE Returns("it->", heap[it.cur].val)
    /\ IterFrame

(* it != iter, for an it with a Set: how the call ends and what it returns *)
NotEqual(it, iter) ==
    IF ~check_version_(it) THEN Call("!=", "invalid iterator", 0)
    ELSE Call("!=", "ok", it.s # iter.s \/ it.cur # iter.cur)

(* it == iter: check_version_, then !operator!=(iter) *)
Equal(it, iter) ==
    IF ~check_version_(it) THEN Call("==", "invalid iterator", 0)
    ELSE LET ne == NotEqual(it, iter)
         IN  IF ne.out = "ok" THEN Call("==", "ok", ~ne.val) ELSE Call("==", ne.out, 0)

(* operator!= *)
Neq(i, j) ==
    /\ IF iters[i].s = nullptr THEN Undefined("!=", i)
       ELSE UNCHANGED <<heap, root_, iters>> /\ last' = NotEqual(iters[i], iters[j])
    /\ IterFrame

(* operator== *)
Eq(i, j) ==
    /\ IF iters[i].s = nullptr THEN Undefined("==", i)
       ELSE UNCHANGED <<heap, root_, iters>> /\ last' = Equal(iters[i], iters[j])
    /\ IterFrame

(* --------------------------- specifications ---------------------------- *)

(* one Set, built up and taken down key by key *)
Next ==
    \/ \E k \in TreeKeys : Insert(1, k, MaxTreeVersion)
    \/ \E k \in TreeKeys : Erase(1, k, MaxTreeVersion)

Spec == Init /\ [][Next]_vars

(* two Sets, constructed, copied and moved *)
NextSets ==
    \/ \E d \in Sets : Construct(d)
    \/ \E s \in Sets, k \in Keys : Insert(s, k, MaxVersion)
    \/ \E s \in Sets, k \in Keys : Erase(s, k, MaxVersion)
    \/ \E d, s \in Sets : CopyConstruct(d, s)
    \/ \E d, s \in Sets : CopyAssign(d, s, MaxVersion)
    \/ \E d, s \in Sets : MoveConstruct(d, s)
    \/ \E d, s \in Sets : MoveAssign(d, s)

SpecSets == Init /\ [][NextSets]_vars

(* two Sets and one iterator, taken from either and used in every way *)
NextIter ==
    \/ \E d \in Sets : Construct(d)
    \/ \E s \in Sets, k \in IterKeys : Insert(s, k, MaxIterVersion)
    \/ \E s \in Sets, k \in IterKeys : Erase(s, k, MaxIterVersion)
    \/ \E d, s \in Sets : CopyConstruct(d, s)
    \/ \E d, s \in Sets : CopyAssign(d, s, MaxIterVersion)
    \/ \E d, s \in Sets : MoveConstruct(d, s)
    \/ \E d, s \in Sets : MoveAssign(d, s)
    \/ \E s \in Sets : Begin(1, s)
    \/ \E s \in Sets : End(1, s)
    \/ \E s \in Sets, k \in IterKeys : LowerBound(1, s, k)
    \/ \E s \in Sets, k \in IterKeys : Find(1, s, k)
    \/ PreInc(1)
    \/ PostInc(1)
    \/ PreDec(1)
    \/ PostDec(1)
    \/ Deref(1)
    \/ Arrow(1)
    \/ Neq(1, 1)
    \/ Eq(1, 1)

SpecIter == Init /\ [][NextIter]_vars

(* two Sets and one iterator, taken from either and never used *)
NextOwn ==
    \/ \E d \in Sets : Construct(d)
    \/ \E s \in Sets, k \in IterKeys : Insert(s, k, MaxIterVersion)
    \/ \E s \in Sets, k \in IterKeys : Erase(s, k, MaxIterVersion)
    \/ \E d, s \in Sets : CopyConstruct(d, s)
    \/ \E d, s \in Sets : CopyAssign(d, s, MaxIterVersion)
    \/ \E d, s \in Sets : MoveConstruct(d, s)
    \/ \E d, s \in Sets : MoveAssign(d, s)
    \/ \E s \in Sets : Begin(1, s)
    \/ \E s \in Sets : End(1, s)
    \/ \E s \in Sets, k \in IterKeys : LowerBound(1, s, k)
    \/ \E s \in Sets, k \in IterKeys : Find(1, s, k)

SpecOwn == Init /\ [][NextOwn]_vars

(* two Sets and two iterators, compared with each other *)
NextCmp ==
    \/ \E d \in Sets : Construct(d)
    \/ \E s \in Sets, k \in CmpKeys : Insert(s, k, MaxCmpVersion)
    \/ \E s \in Sets, k \in CmpKeys : Erase(s, k, MaxCmpVersion)
    \/ \E i \in Iters, s \in Sets : Begin(i, s)
    \/ \E i \in Iters, s \in Sets : End(i, s)
    \/ \E i, j \in Iters : Neq(i, j)
    \/ \E i, j \in Iters : Eq(i, j)

SpecCmp == Init /\ [][NextCmp]_vars

(* ------------------------------ properties ----------------------------- *)

(* for (it = begin(); it != end(); ++it): the leaves visited, at most fuel *)
(* of them; a walk that throws or does not end within fuel steps ends in  *)
(* nullptr                                                                *)
RECURSIVE Walk(_, _, _, _)
Walk(h, cur, e, fuel) ==
    IF cur = e THEN <<>>
    ELSE IF fuel = 0 \/ cur = Thrown THEN <<nullptr>>
    ELSE CHOOSE w \in {<<cur>> \o Walk(h, n, e, fuel - 1) : n \in {next_node_(h, cur, e)}} : TRUE

LeavesOf(st, e) == Walk(st.h, begin(st, e), e, Cardinality(DOMAIN st.h))

(* the keys *it of that loop *)
TraversalOf(st, e) ==
    LET w == LeavesOf(st, e)
    IN  [i \in 1 .. Len(w) |-> IF w[i] = nullptr THEN 0 ELSE Val(st.h, w[i])]

Leaves(s) == LeavesOf(St(s), END_NODE_(s))

Traversal(s) == TraversalOf(St(s), END_NODE_(s))

(* a sequence with the entries equal to k taken out *)
RECURSIVE Without(_, _)
Without(q, k) ==
    IF q = <<>> THEN <<>>
    ELSE IF Head(q) = k THEN Without(Tail(q), k)
    ELSE <<Head(q)>> \o Without(Tail(q), k)

(* no erase has changed Set s: every change of size_ was an insert *)
OnlyInserted(s) == version_[s] = size_[s]

(* C1: after any sequence of insert calls on an empty Set, the walk from *)
(* begin() to end() by ++ visits exactly the distinct inserted keys, in  *)
(* strictly ascending order, each once.                                  *)
C1_InsertedKeysInOrder ==
    OnlyInserted(1) => Traversal(1) = Ascending(elems[1])

C1_Witness ==
    /\ OnlyInserted(1) /\ last.op = "insert"
    /\ size_[1] = MaxTreeKey
    /\ Traversal(1) = Ascending(TreeKeys)

(* C2: erase(k) of a present key k lowers size() by exactly 1 and leaves *)
(* the traversal as it was with k removed, the rest in the same order.   *)
C2_EraseRemovesOne ==
    \A k \in Range(Traversal(1)) :
        LET after == erase(St(1), k)
        IN  /\ after.size = size_[1] - 1
            /\ TraversalOf(after, END_NODE_(1)) = Without(Traversal(1), k)

C2_Witness ==
    /\ last.op = "erase" /\ last.val
    /\ size_[1] = MaxTreeKey - 1
    /\ Len(Traversal(1)) = MaxTreeKey - 1

(* the keys find and lower_bound are asked for: the stored ones, the ones *)
(* between them and one beyond either end                                *)
Probes == 0 .. (MaxTreeKey + 1)

(* C3: find(k) returns end() exactly when k is absent, and otherwise an  *)
(* iterator whose key neither is less than k nor has k less than it.     *)
C3_FindIffPresent ==
    \A k \in Probes :
        LET f == find(St(1), k, END_NODE_(1))
        IN  /\ f = END_NODE_(1) <=> k \notin elems[1]
            /\ f # END_NODE_(1) =>
                   /\ f \in Range(Leaves(1))
                   /\ ~(Val(heap, f) < k) /\ ~(k < Val(heap, f))

C3_Witness ==
    /\ size_[1] = MaxTreeKey - 1 /\ version_[1] > size_[1]
    /\ \E k \in TreeKeys :
           /\ find(St(1), k, END_NODE_(1)) = END_NODE_(1)
           /\ lower_bound(St(1), k, END_NODE_(1)) # END_NODE_(1)
    /\ \E k \in TreeKeys : find(St(1), k, END_NODE_(1)) # END_NODE_(1)

(* C4: lower_bound(k) is the iterator at the smallest stored key that is *)
(* not less than k, and end() exactly when every stored key is less than *)
(* k (the empty Set included).                                           *)
C4_LowerBoundIsLeast ==
    \A k \in Probes :
        LET lb == lower_bound(St(1), k, END_NODE_(1))
            notLess == {x \in elems[1] : ~(x < k)}
        IN  /\ lb = END_NODE_(1) <=> notLess = {}
            /\ lb # END_NODE_(1) =>
                   /\ lb \in Range(Leaves(1))
                   /\ Val(heap, lb) \in notLess
                   /\ \A x \in notLess : ~(x < Val(heap, lb))

C4_Witness ==
    /\ size_[1] = MaxTreeKey - 1 /\ version_[1] > size_[1]
    /\ \E k \in TreeKeys :
           /\ k \notin elems[1]
           /\ lower_bound(St(1), k, END_NODE_(1)) # END_NODE_(1)
    /\ \E k \in Probes : lower_bound(St(1), k, END_NODE_(1)) = END_NODE_(1)

(* C5: after any sequence of inserts into an empty Set size() is the     *)
(* number of distinct keys inserted, and an insert of a key already      *)
(* present leaves size() unchanged.                                      *)
C5_SizeCountsDistinct ==
    /\ OnlyInserted(1) => size_[1] = Cardinality(elems[1])
    /\ \A k \in elems[1] : insert(St(1), k, END_NODE_(1)).size = size_[1]

C5_Witness ==
    /\ last.op = "insert" /\ ~last.val
    /\ OnlyInserted(1)
    /\ size_[1] = MaxTreeKey - 1


(* the walk from begin() to end() over Set s when the heap is h *)
TraversalIn(h, s) == TraversalOf([St(s) EXCEPT !.h = h], END_NODE_(s))

NodesOf(h, r) == Range(Preorder(h, r))

(* C6: after an insert or an erase that changes size(), and after any    *)
(* copy-assignment into a Set, every iterator obtained from that Set     *)
(* before the call fails with "invalid iterator" on its next operation.  *)
C6_MutationInvalidates ==
    \A s \in Sets : \A i \in Iters :
        (built[s] /\ iters[i].s = s) =>
            /\ \A k \in IterKeys :
                   LET after == insert(St(s), k, END_NODE_(s))
                   IN  after.size # size_[s] => iters[i].version # after.version
            /\ \A k \in IterKeys :
                   LET after == erase(St(s), k)
                   IN  after.size # size_[s] => iters[i].version # after.version
            /\ \A src \in Sets :
                   built[src] => iters[i].version # CopyAssigned(s, src).version

(* C7: an iterator that passes check_version_ is at the end sentinel of  *)
(* its Set or at a leaf reachable from that Set's root.                  *)
C7_ValidIteratorInOwnTree ==
    \A i \in Iters :
        (iters[i].s # nullptr /\ check_version_(iters[i])) =>
            \/ iters[i].cur = END_NODE_(iters[i].s)
            \/ iters[i].cur \in Range(Leaves(iters[i].s))

(* C8: == and != fail with "invalid iterator" when the left or the right *)
(* operand is stale, and iterators of different Sets never compare equal. *)
C8_BothOperandsValidated ==
    \A i, j \in Iters :
        (iters[i].s # nullptr /\ iters[j].s # nullptr) =>
            LET eq == Equal(iters[i], iters[j])
                ne == NotEqual(iters[i], iters[j])
            IN  /\ (~check_version_(iters[i]) \/ ~check_version_(iters[j])) =>
                       (eq.out = "invalid iterator" /\ ne.out = "invalid iterator")
                /\ (iters[i].s # iters[j].s /\ eq.out = "ok") => ~eq.val

(* C9: a Set copy-constructed or copy-assigned from another walks the    *)
(* same keys, the two trees share no node, and an insert or an erase on  *)
(* either Set leaves the walk over the other as it was.                  *)
C9_CopyIsIndependent ==
    /\ \A d, s \in Sets :
           (d # s /\ built[s]) =>
               LET c == IF built[d] THEN CopyAssigned(d, s) ELSE CopyConstructed(d, s)
               IN  /\ TraversalOf(c, END_NODE_(d)) = Traversal(s)
                   /\ c.size = size_[s]
                   /\ TraversalIn(c.h, s) = Traversal(s)
                   /\ NodesOf(c.h, c.root) \cap NodesOf(c.h, root_[s]) = {}
    /\ NodesOf(heap, root_[1]) \cap NodesOf(heap, root_[2]) = {}
    /\ \A s, o \in Sets :
           (s # o /\ built[s] /\ built[o]) =>
               \A k \in Keys :
                   /\ TraversalIn(insert(St(s), k, END_NODE_(s)).h, o) = Traversal(o)
                   /\ TraversalIn(erase(St(s), k).h, o) = Traversal(o)

C9_Witness ==
    /\ last.op = "operator=(const Set&)" /\ last.val
    /\ size_[1] = MaxKey /\ size_[2] = MaxKey
    /\ Traversal(1) = Traversal(2)
    /\ root_[1] # root_[2]

(* C10 as amended: a move gives D the root, the elements, the size and   *)
(* the version stamp S had, and gives S those D had: after a move-       *)
(* construction S is empty, after a move-assignment S holds what D held. *)
C10_MoveSwaps ==
    \A d, s \in Sets :
        (d # s /\ built[s]) =>
            LET m == Swapped(d, s)
            IN  /\ m.root[d] = root_[s] /\ m.root[s] = root_[d]
                /\ m.size[d] = size_[s] /\ m.size[s] = size_[d]
                /\ m.version[d] = version_[s] /\ m.version[s] = version_[d]
                /\ TraversalOf([St(d) EXCEPT !.root = m.root[d], !.size = m.size[d]],
                               END_NODE_(d)) = Traversal(s)
                /\ TraversalOf([St(s) EXCEPT !.root = m.root[s], !.size = m.size[s]],
                               END_NODE_(s)) = Traversal(d)
                /\ ~built[d] =>
                       /\ m.size[s] = 0
                       /\ begin([St(s) EXCEPT !.root = m.root[s], !.size = m.size[s]],
                                END_NODE_(s)) = END_NODE_(s)

C10_Witness ==
    /\ last.op = "operator=(Set&&)" /\ last.val
    /\ size_[1] > 0 /\ size_[2] > 0
    /\ Traversal(1) # Traversal(2)

(* C10 as stated: after a move D holds what S held and S is empty,       *)
(* whatever D held before.                                               *)
C10_MoveLeavesSourceEmpty ==
    \A d, s \in Sets :
        (d # s /\ built[s]) =>
            LET m == Swapped(d, s)
            IN  /\ m.size[d] = size_[s]
                /\ m.version[d] = version_[s]
                /\ TraversalOf([St(d) EXCEPT !.root = m.root[d], !.size = m.size[d]],
                               END_NODE_(d)) = Traversal(s)
                /\ m.size[s] = 0
                /\ begin([St(s) EXCEPT !.root = m.root[s], !.size = m.size[s]],
                         END_NODE_(s)) = END_NODE_(s)

(* C11: insert(k) on a Set that holds k changes nothing: the nodes, the  *)
(* root, size_ and version_ are as before, so a second insert(k) leaves  *)
(* what the first one made and iterators taken in between stay valid.    *)
C11_InsertPresentIsNoOp ==
    /\ \A k \in elems[1] : insert(St(1), k, END_NODE_(1)) = St(1)
    /\ \A k \in TreeKeys :
           \A once \in {insert(St(1), k, END_NODE_(1))} :
               /\ insert(once, k, END_NODE_(1)) = once
               /\ insert(once, k, END_NODE_(1)).version = once.version

C11_Witness ==
    /\ last.op = "insert" /\ ~last.val
    /\ version_[1] > size_[1]
    /\ size_[1] = MaxTreeKey - 2

(* C12: erase(k) on an empty Set, or on a Set that holds no key          *)
(* equivalent to k, changes nothing: the nodes, the root, size_ and      *)
(* version_ are as before, so every iterator that was valid stays valid. *)
C12_EraseAbsentIsNoOp ==
    \A k \in Probes : k \notin elems[1] => erase(St(1), k) = St(1)

C12_Witness ==
    /\ last.op = "erase" /\ ~last.val
    /\ size_[1] = MaxTreeKey - 1
    /\ \E k \in TreeKeys :
           /\ k \notin elems[1]
           /\ lower_bound_(heap, root_[1], k) # nullptr
           /\ k < Val(heap, lower_bound_(heap, root_[1], k))

(* C13: on a Set that does not hold k, insert(k) then erase(k) gives     *)
(* back the same keys and size; on the empty Set it gives back the empty *)
(* Set: size() == 0, no root, begin() == end().                          *)
C13_InsertThenEraseRestores ==
    \A k \in TreeKeys :
        k \notin elems[1] =>
            \A back \in {erase(insert(St(1), k, END_NODE_(1)), k)} :
                /\ back.size = size_[1]
                /\ TraversalOf(back, END_NODE_(1)) = Traversal(1)
                /\ size_[1] = 0 =>
                       /\ back.size = 0
                       /\ back.root = nullptr
                       /\ begin(back, END_NODE_(1)) = END_NODE_(1)

C13_Witness ==
    /\ last.op = "erase" /\ last.val
    /\ version_[1] = 2
    /\ size_[1] = 0 /\ root_[1] = nullptr
    /\ begin(St(1), END_NODE_(1)) = END_NODE_(1)

(* the depths, counted from node n at depth d, of the leaves below n *)
RECURSIVE LeafDepths(_, _, _)
LeafDepths(h, n, d) ==
    IF n = nullptr THEN {}
    ELSE IF sons_size(h, n) = 0 THEN {d}
    ELSE UNION {LeafDepths(h, h[n].sons[i], d + 1) : i \in 1 .. sons_size(h, n)}

(* the nodes of Set s that have sons *)
InternalNodes(s) == {n \in NodesOf(heap, root_[s]) : sons_size(heap, n) > 0}

(* C14: after every insert and every erase, all leaves of the tree are   *)
(* at the same depth from the root.                                      *)
C14_LeavesAtOneDepth ==
    /\ Cardinality(LeafDepths(heap, root_[1], 0)) <= 1
    /\ Cardinality(LeafDepths(heap, root_[1], 0)) = 1 <=> size_[1] > 0
    /\ Cardinality({n \in NodesOf(heap, root_[1]) : sons_size(heap, n) = 0}) = size_[1]

C14_Witness ==
    /\ last.op = "erase" /\ last.val
    /\ LeafDepths(heap, root_[1], 0) = {2}
    /\ size_[1] = 4

(* C15: after every insert and every erase, every node that has sons has *)
(* 2 or 3 of them, the root when size() >= 2 included; a Set of one key  *)
(* is a single leaf.                                                     *)
C15_TwoOrThreeSons ==
    /\ \A n \in InternalNodes(1) : sons_size(heap, n) \in {2, 3}
    /\ size_[1] >= 2 => root_[1] \in InternalNodes(1)
    /\ size_[1] = 1 => sons_size(heap, root_[1]) = 0

C15_Witness ==
    /\ last.op = "erase" /\ last.val
    /\ LeafDepths(heap, root_[1], 0) = {2}
    /\ \E n \in InternalNodes(1) : sons_size(heap, n) = 3
    /\ sons_size(heap, root_[1]) = 2
    /\ size_[1] = 5

(* the keys of the leaves below node n, n included *)
LeafKeys(h, n) == {Val(h, m) : m \in {x \in NodesOf(h, n) : sons_size(h, x) = 0}}

(* C16: after every insert and every erase, every node with sons holds   *)
(* the key of its last son, which is the greatest key of the leaves      *)
(* below it; the key is that of a leaf the Set still holds.              *)
C16_KeyIsLastSonAndMax ==
    \A n \in InternalNodes(1) :
        /\ heap[n].val = heap[heap[n].sons[sons_size(heap, n)]].val
        /\ heap[n].val \in Range(Leaves(1))
        /\ Val(heap, n) \in LeafKeys(heap, n)
        /\ \A k \in LeafKeys(heap, n) : ~(Val(heap, n) < k)

C16_Witness ==
    /\ last.op = "erase" /\ last.val
    /\ LeafDepths(heap, root_[1], 0) = {2}
    /\ MaxTreeKey \notin elems[1]
    /\ version_[1] >= MaxTreeKey + 1
    /\ Val(heap, root_[1]) = MaxTreeKey - 1

(* C17: after every insert and every erase, the sons of every node are   *)
(* strictly ascending by key: the one pass of sort_sons puts the son     *)
(* appended by insert, fix4sons_ or fix1sons_ in its place.              *)
C17_SonsAscending ==
    \A n \in InternalNodes(1) :
        \A i \in 1 .. (sons_size(heap, n) - 1) :
            Val(heap, heap[n].sons[i]) < Val(heap, heap[n].sons[i + 1])

C17_Witness ==
    /\ last.op = "erase" /\ last.val
    /\ LeafDepths(heap, root_[1], 0) = {2}
    /\ sons_size(heap, root_[1]) = 3
    /\ 1 \notin elems[1]
    /\ size_[1] = MaxTreeKey - 1

(* C18: an insert or an erase that changes size() adds exactly one to    *)
(* version_, one that does not leaves version_ alone, and a copy-        *)
(* assignment from another Set makes version_ greater: along insert,     *)
(* erase and copy-assignment calls version_ never goes down and never    *)
(* comes back to a value it had.                                         *)
C18_VersionGrows ==
    \A s \in Sets :
        built[s] =>
            /\ \A k \in Keys :
                   \A after \in {insert(St(s), k, END_NODE_(s)), erase(St(s), k)} :
                       after.version = version_[s] + (IF after.size # size_[s] THEN 1 ELSE 0)
            /\ \A src \in Sets :
                   (built[src] /\ src # s) => CopyAssigned(s, src).version > version_[s]
            /\ CopyAssigned(s, s).version = version_[s]

C18_Witness ==
    /\ last.op = "operator=(const Set&)" /\ last.val
    /\ size_[1] = 2 /\ size_[2] = 2
    /\ version_[1] # version_[2]
    /\ MaxVersion \in {version_[1], version_[2]}

(* C19: at every step inside insert and erase, the fix4sons_ and         *)
(* fix1sons_ cascades included, no node holds more than MAX_SONS sons:   *)
(* peak is the greatest sons_size any write sons[sons_size++] of the     *)
(* call left behind.                                                     *)
C19_NeverMoreThanMaxSons ==
    /\ peak <= MAX_SONS
    /\ \A k \in TreeKeys :
           /\ insert(St(1), k, END_NODE_(1)).peak <= MAX_SONS
           /\ erase(St(1), k).peak <= MAX_SONS

C19_Witness ==
    /\ last.op = "erase" /\ last.val
    /\ peak = MAX_SONS
    /\ LeafDepths(heap, root_[1], 0) = {2}

(* C20: on a Set that is not empty, -- undoes ++ at every stored         *)
(* element, ++ at the greatest element gives end(), and -- at end()      *)
(* gives the greatest element.                                           *)
C20_DecUndoesInc ==
    size_[1] > 0 =>
        \A w \in {Leaves(1)} :
            /\ Len(w) = size_[1]
            /\ \A i \in 1 .. Len(w) :
                   \A n \in {next_node_(heap, w[i], END_NODE_(1))} :
                       /\ n # Thrown
                       /\ prev_node_(heap, root_[1], n, END_NODE_(1)) = w[i]
            /\ next_node_(heap, w[Len(w)], END_NODE_(1)) = END_NODE_(1)
            /\ prev_node_(heap, root_[1], END_NODE_(1), END_NODE_(1)) = w[Len(w)]
            /\ \A i \in 1 .. Len(w) : ~(Val(heap, w[Len(w)]) < Val(heap, w[i]))

C20_Witness ==
    /\ last.op = "erase" /\ last.val
    /\ size_[1] = MaxTreeKey - 2
    /\ LeafDepths(heap, root_[1], 0) = {2}
    /\ prev_node_(heap, root_[1], END_NODE_(1), END_NODE_(1)) = RightMost(heap, root_[1])
    /\ Val(heap, RightMost(heap, root_[1])) = MaxTreeKey

(* the height of the tree under r: the depth of its deepest leaf *)
Height(h, r) == CHOOSE d \in LeafDepths(h, r, 0) : \A x \in LeafDepths(h, r, 0) : x <= d

(* C21: on a tree that is not empty, an insert leaves the height as it   *)
(* is or adds 1 to it, and an erase that leaves a key in the Set leaves  *)
(* the height as it is or takes 1 from it.                               *)
C21_HeightStepsByOne ==
    size_[1] > 0 =>
        \A k \in TreeKeys :
            /\ \A after \in {insert(St(1), k, END_NODE_(1))} :
                   Height(after.h, after.root) - Height(heap, root_[1]) \in {0, 1}
            /\ \A after \in {erase(St(1), k)} :
                   after.size > 0 =>
                       Height(heap, root_[1]) - Height(after.h, after.root) \in {0, 1}

C21_Witness ==
    /\ last.op = "insert" /\ last.val
    /\ size_[1] = 4
    /\ Height(heap, root_[1]) = 2
    /\ \E k \in TreeKeys : LET after == erase(St(1), k)
                           IN  after.size = 3 /\ Height(after.h, after.root) = 1

(* C22: after every insert and every erase, every son c of a node n has  *)
(* c.parent == n, the root has no parent, and every node reachable from  *)
(* the root is reached once: the nodes form a tree.                      *)
C22_ParentLinksMatchSons ==
    /\ root_[1] # nullptr => heap[root_[1]].parent = nullptr
    /\ \A n \in InternalNodes(1) :
           \A i \in 1 .. sons_size(heap, n) : heap[heap[n].sons[i]].parent = n
    /\ \A w \in {Preorder(heap, root_[1])} : Len(w) = Cardinality(Range(w))
    /\ \A c \in NodesOf(heap, root_[1]) \ {root_[1]} :
           Cardinality({n \in InternalNodes(1) :
                            \E i \in 1 .. sons_size(heap, n) : heap[n].sons[i] = c}) = 1

C22_Witness ==
    /\ last.op = "erase" /\ last.val
    /\ size_[1] = 6
    /\ version_[1] = MaxTreeVersion
    /\ Height(heap, root_[1]) = 2
    /\ Cardinality(InternalNodes(1)) = 4

(* C23: in every state reached by insert, erase, the copy and the move   *)
(* operations, a Set has no root exactly when size() == 0, size() is the *)
(* number of leaves reachable from its root, and its root is a leaf      *)
(* without sons exactly when size() == 1.                                *)
C23_RootAndSizeAgree ==
    \A s \in Sets :
        /\ root_[s] = nullptr <=> size_[s] = 0
        /\ size_[s] = Cardinality({n \in NodesOf(heap, root_[s]) : sons_size(heap, n) = 0})
        /\ (root_[s] # nullptr /\ sons_size(heap, root_[s]) = 0) <=> size_[s] = 1
        /\ size_[s] = Len(Traversal(s))

C23_Witness ==
    /\ last.op = "operator=(Set&&)" /\ last.val
    /\ size_[1] = 1 /\ size_[2] = MaxKey
    /\ sons_size(heap, root_[1]) = 0
    /\ sons_size(heap, root_[2]) = MaxKey

(* C24: on a Set that is not empty, -- at begin() and ++ at end() both   *)
(* end at the end sentinel and raise no error: the iterator they leave   *)
(* compares equal to end().                                              *)
C24_PastTheBoundaryIsEnd ==
    size_[1] > 0 =>
        \A first \in {begin(St(1), END_NODE_(1))} :
            /\ first # END_NODE_(1)
            /\ first \in DOMAIN heap
            /\ prev_node_(heap, root_[1], first, END_NODE_(1)) = END_NODE_(1)
            /\ next_node_(heap, END_NODE_(1), END_NODE_(1)) = END_NODE_(1)
            /\ Equal(Iterator(prev_node_(heap, root_[1], first, END_NODE_(1)), 1),
                     Iterator(END_NODE_(1), 1)) = Call("==", "ok", TRUE)
            /\ Equal(Iterator(next_node_(heap, END_NODE_(1), END_NODE_(1)), 1),
                     Iterator(END_NODE_(1), 1)) = Call("==", "ok", TRUE)

C24_Witness ==
    /\ last.op = "erase" /\ last.val
    /\ size_[1] = MaxTreeKey - 3
    /\ 1 \notin elems[1]
    /\ Height(heap, root_[1]) = 2
    /\ heap[begin(St(1), END_NODE_(1))].parent # root_[1]

====
